---------------------------- MODULE Spec2Model ----------------------------
(***************************************************************************)
(* The SQL scalar-expression AST of sql-parser (ast/defs/expr.rs) and its  *)
(* unparser.  Every AstDisplay::fmt of the file is an operator that gives  *)
(* the sequence of write_str / write_node calls the implementation makes   *)
(* for a node; write_node runs such a sequence against an AstFormatter.    *)
(* The derived PartialEq and Hash of Expr are operators as well.           *)
(***************************************************************************)
EXTENDS Integers, Sequences, FiniteSets, TLC

VARIABLES node, rhs, f, pc, eq, hashers

vars == <<node, rhs, f, pc, eq, hashers>>

(***************************************************************************)
(* Bounds of the checked instances.                                        *)
(***************************************************************************)
MaxList == 3
MaxCount == 1
MaxParam == 2

(***************************************************************************)
(* Values.  Every node carries its Rust type in k; an Expr carries its     *)
(* variant in tag.                                                         *)
(***************************************************************************)
None == [k |-> "None"]
Some(v) == [k |-> "Some", v |-> v]

\* External leaf types (crate::ast): opaque here except that they render.
Ident(s) == [k |-> "Ident", text |-> s]
ObjectName(s) == [k |-> "ObjectName", text |-> s]
DataType(s) == [k |-> "DataType", text |-> s]
Query(s) == [k |-> "Query", text |-> s]
OrderByExpr(s) == [k |-> "OrderByExpr", text |-> s]
BinaryOperator(s) == [k |-> "BinaryOperator", text |-> s]
UnaryOperator(s) == [k |-> "UnaryOperator", text |-> s]
ValueString(s) == [k |-> "Value", variant |-> "String", text |-> s]
ValueNumber(s) == [k |-> "Value", variant |-> "Number", text |-> s]

\* pub enum Expr
Identifier(parts) == [k |-> "Expr", tag |-> "Identifier", parts |-> parts]
QualifiedWildcard(parts) == [k |-> "Expr", tag |-> "QualifiedWildcard", parts |-> parts]
Parameter(n) == [k |-> "Expr", tag |-> "Parameter", n |-> n]
IsNull(e) == [k |-> "Expr", tag |-> "IsNull", expr |-> e]
IsNotNull(e) == [k |-> "Expr", tag |-> "IsNotNull", expr |-> e]
InList(e, list, negated) ==
    [k |-> "Expr", tag |-> "InList", expr |-> e, list |-> list, negated |-> negated]
InSubquery(e, subquery, negated) ==
    [k |-> "Expr", tag |-> "InSubquery", expr |-> e, subquery |-> subquery,
     negated |-> negated]
Between(e, negated, low, high) ==
    [k |-> "Expr", tag |-> "Between", expr |-> e, negated |-> negated,
     low |-> low, high |-> high]
BinaryOp(left, op, right) ==
    [k |-> "Expr", tag |-> "BinaryOp", left |-> left, op |-> op, right |-> right]
UnaryOp(op, e) == [k |-> "Expr", tag |-> "UnaryOp", op |-> op, expr |-> e]
Cast(e, data_type) == [k |-> "Expr", tag |-> "Cast", expr |-> e, data_type |-> data_type]
Extract(field, e) == [k |-> "Expr", tag |-> "Extract", field |-> field, expr |-> e]
Trim(side, exprs) == [k |-> "Expr", tag |-> "Trim", side |-> side, exprs |-> exprs]
Collate(e, collation) ==
    [k |-> "Expr", tag |-> "Collate", expr |-> e, collation |-> collation]
Coalesce(exprs) == [k |-> "Expr", tag |-> "Coalesce", exprs |-> exprs]
Nested(e) == [k |-> "Expr", tag |-> "Nested", expr |-> e]
Row(exprs) == [k |-> "Expr", tag |-> "Row", exprs |-> exprs]
Value(v) == [k |-> "Expr", tag |-> "Value", value |-> v]
FunctionExpr(fun) == [k |-> "Expr", tag |-> "Function", fun |-> fun]
Case(operand, conditions, results, else_result) ==
    [k |-> "Expr", tag |-> "Case", operand |-> operand, conditions |-> conditions,
     results |-> results, else_result |-> else_result]
Exists(q) == [k |-> "Expr", tag |-> "Exists", query |-> q]
Subquery(q) == [k |-> "Expr", tag |-> "Subquery", query |-> q]
AnyExpr(left, op, right, some) ==
    [k |-> "Expr", tag |-> "Any", left |-> left, op |-> op, right |-> right,
     some |-> some]
All(left, op, right) ==
    [k |-> "Expr", tag |-> "All", left |-> left, op |-> op, right |-> right]
List(exprs) == [k |-> "Expr", tag |-> "List", exprs |-> exprs]

\* pub struct WindowSpec, WindowFrame, Function; pub enum WindowFrameUnits,
\* WindowFrameBound, FunctionArgs, TrimSide
WindowSpec(partition_by, order_by, window_frame) ==
    [k |-> "WindowSpec", partition_by |-> partition_by, order_by |-> order_by,
     window_frame |-> window_frame]
WindowFrame(units, start_bound, end_bound) ==
    [k |-> "WindowFrame", units |-> units, start_bound |-> start_bound,
     end_bound |-> end_bound]
WindowFrameUnits(u) == [k |-> "WindowFrameUnits", variant |-> u]
CurrentRow == [k |-> "WindowFrameBound", variant |-> "CurrentRow", n |-> None]
Preceding(n) == [k |-> "WindowFrameBound", variant |-> "Preceding", n |-> n]
Following(n) == [k |-> "WindowFrameBound", variant |-> "Following", n |-> n]
Function(name, args, filter, over, distinct) ==
    [k |-> "Function", name |-> name, args |-> args, filter |-> filter,
     over |-> over, distinct |-> distinct]
Star == [k |-> "FunctionArgs", variant |-> "Star", args |-> <<>>]
Args(args) == [k |-> "FunctionArgs", variant |-> "Args", args |-> args]
TrimSide(s) == [k |-> "TrimSide", variant |-> s]

(***************************************************************************)
(* AstFormatter and the display helpers (crate::ast::display).             *)
(***************************************************************************)
\* One pending call of a fmt body: write_str(s), or an index past the end
\* of a Vec (the panic of exprs[0]); every other item is write_node(item).
Str(s) == [k |-> "str", s |-> s]
IndexOutOfBounds == [k |-> "panic"]

NewFormatter == [buf |-> <<>>, panicked |-> FALSE]

\* AstFormatter::write_str: appends to the buffer.  Nothing runs after a panic.
write_str(fm, s) == IF fm.panicked THEN fm ELSE [fm EXCEPT !.buf = Append(@, s)]

\* display::separated(items, sep) and display::comma_separated(items)
separated(items, sep) == [k |-> "Separated", items |-> items, sep |-> sep]
comma_separated(items) == separated(items, ", ")
\* display::escape_single_quote_string(s); s is a sequence of characters
escape_single_quote_string(s) == [k |-> "EscapeSingleQuoteString", s |-> s]

\* Vec indexing v[i] (0-based in the source, 1-based here)
Index(v, i) == IF i <= Len(v) THEN v[i] ELSE IndexOutOfBounds

RECURSIVE SeparatedFmt(_, _)
SeparatedFmt(items, sep) ==
    IF Len(items) = 0 THEN <<>>
    ELSE IF Len(items) = 1 THEN <<Head(items)>>
    ELSE <<Head(items), Str(sep)>> \o SeparatedFmt(Tail(items), sep)

RECURSIVE EscapeSingleQuoteStringFmt(_)
EscapeSingleQuoteStringFmt(s) ==
    IF Len(s) = 0 THEN <<>>
    ELSE <<Str(IF Head(s) = "'" THEN "''" ELSE Head(s))>>
         \o EscapeSingleQuoteStringFmt(Tail(s))

\* The external leaves render their own text; a string Value is quoted.
LeafFmt(n) == <<Str(n.text)>>
ValueFmt(v) ==
    IF v.variant = "String" THEN <<Str("'" \o v.text \o "'")>> ELSE <<Str(v.text)>>

(***************************************************************************)
(* impl AstDisplay for Expr: one operator per match arm.                   *)
(***************************************************************************)
IdentifierFmt(e) == <<separated(e.parts, ".")>>

QualifiedWildcardFmt(e) == <<separated(e.parts, "."), Str(".*")>>

ParameterFmt(e) == <<Str("$" \o ToString(e.n))>>

IsNullFmt(e) == <<e.expr, Str(" IS NULL")>>

IsNotNullFmt(e) == <<e.expr, Str(" IS NOT NULL")>>

InListFmt(e) ==
    <<e.expr, Str(" ")>>
    \o (IF e.negated THEN <<Str("NOT ")>> ELSE <<>>)
    \o <<Str("IN ("), comma_separated(e.list), Str(")")>>

InSubqueryFmt(e) ==
    <<e.expr, Str(" ")>>
    \o (IF e.negated THEN <<Str("NOT ")>> ELSE <<>>)
    \o <<Str("IN ("), e.subquery, Str(")")>>

BetweenFmt(e) ==
    <<e.expr>>
    \o (IF e.negated THEN <<Str(" NOT")>> ELSE <<>>)
    \o <<Str(" BETWEEN "), e.low, Str(" AND "), e.high>>

BinaryOpFmt(e) == <<e.left, Str(" "), e.op, Str(" "), e.right>>

UnaryOpFmt(e) == <<e.op, Str(" "), e.expr>>

\* A wrap decided by operator precedence instead of the list of safe variants.
needs_wrap_by_precedence(expr) == expr.tag \in {"BinaryOp", "UnaryOp"}

\* let needs_wrap = match **expr { ... => false, _ => true }
needs_wrap(expr) ==
    expr.tag \notin {"Nested", "Value", "Cast", "Function", "Identifier",
                     "Extract", "Trim", "Collate", "Coalesce"}

CastFmt(e) ==
    (IF needs_wrap(e.expr) THEN <<Str("(")>> ELSE <<>>)
    \o <<e.expr>>
    \o (IF needs_wrap(e.expr) THEN <<Str(")")>> ELSE <<>>)
    \o <<Str("::"), e.data_type>>

ExtractFmt(e) ==
    <<Str("EXTRACT("), escape_single_quote_string(e.field), Str(" FROM "),
      e.expr, Str(")")>>

\* The second argument written whenever there is one (len >= 2).
TrimFmtAtLeastTwo(e) ==
    <<e.side, Str("("), Index(e.exprs, 1)>>
    \o (IF Len(e.exprs) >= 2 THEN <<Str(", "), Index(e.exprs, 2)>> ELSE <<>>)
    \o <<Str(")")>>

\* The first argument read with exprs.get(0), which does not panic.
TrimFmtGet(e) ==
    <<e.side, Str("(")>>
    \o (IF Len(e.exprs) >= 1 THEN <<e.exprs[1]>> ELSE <<>>)
    \o (IF Len(e.exprs) = 2 THEN <<Str(", "), Index(e.exprs, 2)>> ELSE <<>>)
    \o <<Str(")")>>

TrimFmt(e) ==
    <<e.side, Str("("), Index(e.exprs, 1)>>
    \o (IF Len(e.exprs) = 2 THEN <<Str(", "), Index(e.exprs, 2)>> ELSE <<>>)
    \o <<Str(")")>>

CollateFmt(e) == <<e.expr, Str(" COLLATE "), e.collation>>

CoalesceFmt(e) == <<Str("COALESCE("), comma_separated(e.exprs), Str(")")>>

NestedFmt(e) == <<Str("("), e.expr, Str(")")>>

RowFmt(e) == <<Str("ROW("), comma_separated(e.exprs), Str(")")>>

ValueExprFmt(e) == <<e.value>>

FunctionExprFmt(e) == <<e.fun>>

\* for (i, c) in conditions.iter().enumerate() { ... results[i] ... }
RECURSIVE WhenThenIndexed(_, _)
WhenThenIndexed(conditions, results) ==
    IF Len(conditions) = 0 THEN <<>>
    ELSE <<Str(" WHEN "), Head(conditions), Str(" THEN "), Index(results, 1)>>
         \o WhenThenIndexed(Tail(conditions),
                            IF Len(results) = 0 THEN <<>> ELSE Tail(results))

\* for (c, r) in conditions.iter().zip(results)
RECURSIVE WhenThen(_, _)
WhenThen(conditions, results) ==
    IF Len(conditions) = 0 \/ Len(results) = 0 THEN <<>>
    ELSE <<Str(" WHEN "), Head(conditions), Str(" THEN "), Head(results)>>
         \o WhenThen(Tail(conditions), Tail(results))

CaseFmt(e) ==
    <<Str("CASE")>>
    \o (IF e.operand.k = "Some" THEN <<Str(" "), e.operand.v>> ELSE <<>>)
    \o WhenThen(e.conditions, e.results)
    \o (IF e.else_result.k = "Some" THEN <<Str(" ELSE "), e.else_result.v>> ELSE <<>>)
    \o <<Str(" END")>>

ExistsFmt(e) == <<Str("EXISTS ("), e.query, Str(")")>>

SubqueryFmt(e) == <<Str("("), e.query, Str(")")>>

AnyFmt(e) ==
    <<e.left, Str(" "), e.op>>
    \o (IF e.some THEN <<Str(" SOME ")>> ELSE <<Str(" ANY ")>>)
    \o <<Str("("), e.right, Str(")")>>

AllFmt(e) == <<e.left, Str(" "), e.op, Str(" ALL ("), e.right, Str(")")>>

\* The separator written after every element, the last one too.
RECURSIVE PeekableLoopTrailing(_)
PeekableLoopTrailing(exprs) ==
    IF Len(exprs) = 0 THEN <<>>
    ELSE <<Head(exprs), Str(", ")>> \o PeekableLoopTrailing(Tail(exprs))

\* while let Some(expr) = exprs.next() { ...; if exprs.peek().is_some() { ", " } }
RECURSIVE PeekableLoop(_)
PeekableLoop(exprs) ==
    IF Len(exprs) = 0 THEN <<>>
    ELSE <<Head(exprs)>>
         \o (IF Len(Tail(exprs)) > 0 THEN <<Str(", ")>> ELSE <<>>)
         \o PeekableLoop(Tail(exprs))

ListFmt(e) == <<Str("LIST[")>> \o PeekableLoop(e.exprs) \o <<Str("]")>>

ExprFmt(e) ==
    CASE e.tag = "Identifier" -> IdentifierFmt(e)
      [] e.tag = "QualifiedWildcard" -> QualifiedWildcardFmt(e)
      [] e.tag = "Parameter" -> ParameterFmt(e)
      [] e.tag = "IsNull" -> IsNullFmt(e)
      [] e.tag = "IsNotNull" -> IsNotNullFmt(e)
      [] e.tag = "InList" -> InListFmt(e)
      [] e.tag = "InSubquery" -> InSubqueryFmt(e)
      [] e.tag = "Between" -> BetweenFmt(e)
      [] e.tag = "BinaryOp" -> BinaryOpFmt(e)
      [] e.tag = "UnaryOp" -> UnaryOpFmt(e)
      [] e.tag = "Cast" -> CastFmt(e)
      [] e.tag = "Extract" -> ExtractFmt(e)
      [] e.tag = "Trim" -> TrimFmt(e)
      [] e.tag = "Collate" -> CollateFmt(e)
      [] e.tag = "Coalesce" -> CoalesceFmt(e)
      [] e.tag = "Nested" -> NestedFmt(e)
      [] e.tag = "Row" -> RowFmt(e)
      [] e.tag = "Value" -> ValueExprFmt(e)
      [] e.tag = "Function" -> FunctionExprFmt(e)
      [] e.tag = "Case" -> CaseFmt(e)
      [] e.tag = "Exists" -> ExistsFmt(e)
      [] e.tag = "Subquery" -> SubqueryFmt(e)
      [] e.tag = "Any" -> AnyFmt(e)
      [] e.tag = "All" -> AllFmt(e)
      [] e.tag = "List" -> ListFmt(e)

\* impl Expr { pub fn is_string_literal }
is_string_literal(e) == e.tag = "Value" /\ e.value.variant = "String"

(***************************************************************************)
(* impl AstDisplay for WindowSpec, WindowFrameUnits, WindowFrameBound,     *)
(* Function, FunctionArgs, TrimSide.                                       *)
(***************************************************************************)
\* The frame written as BETWEEN .. AND CURRENT ROW when it has no end bound.
WindowFrameCallsExplicitEnd(delim, window_frame) ==
    IF window_frame.end_bound.k = "Some"
    THEN <<Str(delim), window_frame.units, Str(" BETWEEN "),
           window_frame.start_bound, Str(" AND "), window_frame.end_bound.v>>
    ELSE <<Str(delim), window_frame.units, Str(" BETWEEN "),
           window_frame.start_bound, Str(" AND "), CurrentRow>>

\* if let Some(end_bound) = &window_frame.end_bound { ... } else { ... }
WindowFrameCalls(delim, window_frame) ==
    IF window_frame.end_bound.k = "Some"
    THEN <<Str(delim), window_frame.units, Str(" BETWEEN "),
           window_frame.start_bound, Str(" AND "), window_frame.end_bound.v>>
    ELSE <<Str(delim), window_frame.units, Str(" "), window_frame.start_bound>>

\* delim left empty after PARTITION BY.
WindowSpecFmtStaleDelim(w) ==
    LET delim0 == ""
        part1 == IF Len(w.partition_by) # 0
                 THEN <<Str("PARTITION BY "), comma_separated(w.partition_by)>>
                 ELSE <<>>
        delim1 == delim0
        part2 == IF Len(w.order_by) # 0
                 THEN <<Str(delim1), Str("ORDER BY "), comma_separated(w.order_by)>>
                 ELSE <<>>
        delim2 == IF Len(w.order_by) # 0 THEN " " ELSE delim1
        part3 == IF w.window_frame.k = "Some"
                 THEN WindowFrameCalls(delim2, w.window_frame.v)
                 ELSE <<>>
    IN  part1 \o part2 \o part3

\* delim is the variable of the source: delim0 its first value, delim1 and
\* delim2 its values after the first and the second if.
WindowSpecFmt(w) ==
    LET delim0 == ""
        part1 == IF Len(w.partition_by) # 0
                 THEN <<Str("PARTITION BY "), comma_separated(w.partition_by)>>
                 ELSE <<>>
        delim1 == IF Len(w.partition_by) # 0 THEN " " ELSE delim0
        part2 == IF Len(w.order_by) # 0
                 THEN <<Str(delim1), Str("ORDER BY "), comma_separated(w.order_by)>>
                 ELSE <<>>
        delim2 == IF Len(w.order_by) # 0 THEN " " ELSE delim1
        part3 == IF w.window_frame.k = "Some"
                 THEN WindowFrameCalls(delim2, w.window_frame.v)
                 ELSE <<>>
    IN  part1 \o part2 \o part3

WindowFrameUnitsFmt(u) ==
    <<Str(CASE u.variant = "Rows" -> "ROWS"
            [] u.variant = "Range" -> "RANGE"
            [] u.variant = "Groups" -> "GROUPS")>>

WindowFrameBoundFmt(b) ==
    CASE b.variant = "CurrentRow" -> <<Str("CURRENT ROW")>>
      [] b.variant = "Preceding" /\ b.n.k = "None" -> <<Str("UNBOUNDED PRECEDING")>>
      [] b.variant = "Following" /\ b.n.k = "None" -> <<Str("UNBOUNDED FOLLOWING")>>
      [] b.variant = "Preceding" /\ b.n.k = "Some" ->
            <<Str(ToString(b.n.v)), Str(" PRECEDING")>>
      [] b.variant = "Following" /\ b.n.k = "Some" ->
            <<Str(ToString(b.n.v)), Str(" FOLLOWING")>>

\* The OVER clause left open.
FunctionFmtUnclosedOver(fun) ==
    <<fun.name, Str("(")>>
    \o (IF fun.distinct THEN <<Str("DISTINCT ")>> ELSE <<>>)
    \o <<fun.args, Str(")")>>
    \o (IF fun.filter.k = "Some"
        THEN <<Str(" FILTER (WHERE "), fun.filter.v, Str(")")>> ELSE <<>>)
    \o (IF fun.over.k = "Some" THEN <<Str(" OVER ("), fun.over.v>> ELSE <<>>)

FunctionFmt(fun) ==
    <<fun.name, Str("(")>>
    \o (IF fun.distinct THEN <<Str("DISTINCT ")>> ELSE <<>>)
    \o <<fun.args, Str(")")>>
    \o (IF fun.filter.k = "Some"
        THEN <<Str(" FILTER (WHERE "), fun.filter.v, Str(")")>> ELSE <<>>)
    \o (IF fun.over.k = "Some" THEN <<Str(" OVER ("), fun.over.v, Str(")")>> ELSE <<>>)

FunctionArgsFmt(a) ==
    IF a.variant = "Star" THEN <<Str("*")>> ELSE <<comma_separated(a.args)>>

TrimSideFmt(t) ==
    CASE t.variant = "Both" -> <<Str("btrim")>>
      [] t.variant = "Leading" -> <<Str("ltrim")>>
      [] t.variant = "Trailing" -> <<Str("rtrim")>>

(***************************************************************************)
(* AstFormatter::write_node: runs the node's fmt against the formatter,    *)
(* call by call, stopping at a panic.                                      *)
(***************************************************************************)
Calls(n) ==
    CASE n.k = "Expr" -> ExprFmt(n)
      [] n.k = "WindowSpec" -> WindowSpecFmt(n)
      [] n.k = "WindowFrameUnits" -> WindowFrameUnitsFmt(n)
      [] n.k = "WindowFrameBound" -> WindowFrameBoundFmt(n)
      [] n.k = "Function" -> FunctionFmt(n)
      [] n.k = "FunctionArgs" -> FunctionArgsFmt(n)
      [] n.k = "TrimSide" -> TrimSideFmt(n)
      [] n.k = "Separated" -> SeparatedFmt(n.items, n.sep)
      [] n.k = "EscapeSingleQuoteString" -> EscapeSingleQuoteStringFmt(n.s)
      [] n.k = "Value" -> ValueFmt(n)
      [] OTHER -> LeafFmt(n)

RECURSIVE write_node(_, _), RunCalls(_, _)
write_node(fm, n) ==
    CASE n.k = "str" -> write_str(fm, n.s)
      [] n.k = "panic" -> [fm EXCEPT !.panicked = TRUE]
      [] OTHER -> RunCalls(fm, Calls(n))

RunCalls(fm, calls) ==
    IF Len(calls) = 0 \/ fm.panicked THEN fm
    ELSE RunCalls(write_node(fm, Head(calls)), Tail(calls))

\* The text a buffer holds.
RECURSIVE Text(_)
Text(buf) == IF Len(buf) = 0 THEN "" ELSE Head(buf) \o Text(Tail(buf))

\* AstDisplay::to_ast_string via impl_display!: a fresh formatter, one write_node.
to_ast_string(n) == write_node(NewFormatter, n)

(***************************************************************************)
(* The trees handed to the renderer.  Construction never fails and checks  *)
(* nothing, so every combination of fields is a value the program can      *)
(* hold, wrong-length Trim and Case lists included.                        *)
(***************************************************************************)
SeqsUpTo(S, n) == UNION {[1..m -> S] : m \in 0..n}

X == Identifier(<<Ident("x")>>)
Y == Value(ValueString("y"))
Z == Parameter(1)
Q == Query("SELECT 1")
Plus == BinaryOperator("+")
Times == BinaryOperator("*")
EmptyTrim == Trim(TrimSide("Both"), <<>>)

ExprLists == SeqsUpTo({X, Y, EmptyTrim}, MaxList)
XLists == SeqsUpTo({X, EmptyTrim}, MaxList)
Sides == {TrimSide("Both"), TrimSide("Leading"), TrimSide("Trailing")}
Units == {WindowFrameUnits("Rows"), WindowFrameUnits("Range"), WindowFrameUnits("Groups")}
Bounds ==
    {CurrentRow, Preceding(None), Following(None)}
    \cup {Preceding(Some(n)) : n \in 1..MaxCount}
    \cup {Following(Some(n)) : n \in 1..MaxCount}
Frames ==
    {WindowFrame(u, s, e) : u \in Units, s \in Bounds,
                            e \in {None} \cup {Some(b) : b \in Bounds}}
WindowSpecs ==
    {WindowSpec(pb, ob, wf) :
        pb \in XLists,
        ob \in SeqsUpTo({OrderByExpr("o DESC")}, MaxList),
        wf \in {None} \cup {Some(fr) : fr \in Frames}}
SomeWindowSpecs ==
    {WindowSpec(<<>>, <<>>, None),
     WindowSpec(<<X>>, <<OrderByExpr("o DESC")>>, None),
     WindowSpec(<<EmptyTrim>>, <<>>, None),
     WindowSpec(<<>>, <<>>,
                Some(WindowFrame(WindowFrameUnits("Rows"), Preceding(Some(1)), None)))}
FunctionArgss == {Star} \cup {Args(l) : l \in ExprLists}
Functions ==
    {Function(ObjectName("fn"), a, fl, ov, d) :
        a \in FunctionArgss,
        fl \in {None, Some(X), Some(EmptyTrim)},
        ov \in {None} \cup {Some(w) : w \in SomeWindowSpecs},
        d \in BOOLEAN}
AFunction == Function(ObjectName("fn"), Args(<<X>>), None, None, FALSE)

\* One tree of every variant, and an empty Trim: the children of the
\* one-child and two-child variants below.
Children ==
    {X, Y, Z, EmptyTrim,
     QualifiedWildcard(<<Ident("t")>>),
     IsNull(X), IsNotNull(X),
     InList(X, <<Y>>, FALSE),
     InSubquery(X, Q, TRUE),
     Between(X, FALSE, Y, Z),
     BinaryOp(X, Plus, Y), BinaryOp(Y, Times, X),
     UnaryOp(UnaryOperator("-"), X),
     Cast(X, DataType("TEXT")),
     Extract(<<"d", "a", "y">>, X),
     Trim(TrimSide("Leading"), <<X>>),
     Collate(X, ObjectName("c")),
     Coalesce(<<X, Y>>),
     Nested(BinaryOp(X, Plus, Y)), Nested(IsNull(X)),
     Row(<<X>>),
     FunctionExpr(AFunction),
     Case(None, <<X>>, <<Y>>, None),
     Exists(Q), Subquery(Q),
     AnyExpr(X, Plus, Q, TRUE), All(X, Plus, Q),
     List(<<X, Y>>)}

Exprs ==
    Children
    \cup {Identifier(p) : p \in SeqsUpTo({Ident("a"), Ident("b")}, MaxList)}
    \cup {QualifiedWildcard(p) : p \in SeqsUpTo({Ident("a"), Ident("b")}, MaxList)}
    \cup {Parameter(n) : n \in 1..MaxParam}
    \cup {Value(ValueNumber("1"))}
    \cup {IsNull(e) : e \in Children}
    \cup {IsNotNull(e) : e \in Children}
    \cup {InList(e, l, n) : e \in {X, EmptyTrim}, l \in ExprLists, n \in BOOLEAN}
    \cup {InSubquery(e, Q, n) : e \in Children, n \in BOOLEAN}
    \cup {Between(e, n, lo, hi) : e \in {X, EmptyTrim}, n \in BOOLEAN,
                                  lo \in {Y, EmptyTrim}, hi \in {Z, EmptyTrim}}
    \cup {BinaryOp(l, o, r) : l \in Children, o \in {Plus, Times}, r \in Children}
    \cup {UnaryOp(UnaryOperator(o), e) : o \in {"-", "NOT"}, e \in Children}
    \cup {Cast(e, DataType(t)) : e \in Children, t \in {"TEXT", "INT4"}}
    \cup {Extract(fl, e) : fl \in {<<"d", "a", "y">>, <<"o", "'", "c">>, <<>>},
                           e \in Children}
    \cup {Trim(sd, l) : sd \in Sides, l \in ExprLists}
    \cup {Collate(e, ObjectName("c")) : e \in Children}
    \cup {Coalesce(l) : l \in ExprLists}
    \cup {Nested(e) : e \in Children}
    \cup {Row(l) : l \in ExprLists}
    \cup {FunctionExpr(fn) : fn \in Functions}
    \cup {Case(o, cs, rs, el) :
            o \in {None, Some(Z)},
            cs \in ExprLists,
            rs \in XLists,
            el \in {None, Some(Y)}}
    \cup {Case(Some(EmptyTrim), <<X>>, <<Y>>, None),
          Case(None, <<X>>, <<Y>>, Some(EmptyTrim))}
    \cup {AnyExpr(e, o, Q, sm) : e \in Children, o \in {Plus}, sm \in BOOLEAN}
    \cup {All(e, Plus, Q) : e \in Children}
    \cup {List(l) : l \in ExprLists}
    \cup {List(<<List(<<X>>), Cast(BinaryOp(X, Plus, Y), DataType("INT4"))>>)}

Inputs ==
    Exprs \cup WindowSpecs \cup Functions \cup FunctionArgss \cup Bounds
    \cup Units \cup Sides

(***************************************************************************)
(* Rendering: a value is built, then rendered once by to_ast_string.       *)
(***************************************************************************)
Init ==
    /\ node \in Inputs
    /\ rhs = None
    /\ f = NewFormatter
    /\ pc = "built"
    /\ eq = None
    /\ hashers = <<>>

\* impl_display!(T): T's Display renders the value with to_ast_string.
Display ==
    /\ pc = "built"
    /\ f' = to_ast_string(node)
    /\ pc' = IF f'.panicked THEN "panicked" ELSE "rendered"
    /\ UNCHANGED <<node, rhs, eq, hashers>>

ExprDisplay ==
    /\ node.k = "Expr"
    /\ Display

WindowSpecDisplay ==
    /\ node.k = "WindowSpec"
    /\ Display

WindowFrameUnitsDisplay ==
    /\ node.k = "WindowFrameUnits"
    /\ Display

WindowFrameBoundDisplay ==
    /\ node.k = "WindowFrameBound"
    /\ Display

FunctionDisplay ==
    /\ node.k = "Function"
    /\ Display

FunctionArgsDisplay ==
    /\ node.k = "FunctionArgs"
    /\ Display

TrimSideDisplay ==
    /\ node.k = "TrimSide"
    /\ Display

Next ==
    \/ ExprDisplay
    \/ WindowSpecDisplay
    \/ WindowFrameUnitsDisplay
    \/ WindowFrameBoundDisplay
    \/ FunctionDisplay
    \/ FunctionArgsDisplay
    \/ TrimSideDisplay

Spec == Init /\ [][Next]_vars

(***************************************************************************)
(* #[derive(PartialEq, Eq, Hash)]: eq compares the variant, then the       *)
(* fields in declaration order; hash feeds the hasher the variant's index, *)
(* then the fields in declaration order (a Vec its length first, an        *)
(* Option its variant first).  The external leaf types compare and hash    *)
(* by value.                                                               *)
(***************************************************************************)
RECURSIVE ExprEq(_, _), NodeEq(_, _)

VecEq(u, v) == Len(u) = Len(v) /\ \A i \in 1..Len(u) : NodeEq(u[i], v[i])

OptionEq(o, p) == o.k = p.k /\ (o.k = "Some" => NodeEq(o.v, p.v))

WindowFrameEq(a, b) ==
    a.units = b.units /\ a.start_bound = b.start_bound /\ a.end_bound = b.end_bound

WindowSpecEq(a, b) ==
    /\ VecEq(a.partition_by, b.partition_by)
    /\ VecEq(a.order_by, b.order_by)
    /\ a.window_frame.k = b.window_frame.k
    /\ a.window_frame.k = "Some" => WindowFrameEq(a.window_frame.v, b.window_frame.v)

FunctionArgsEq(a, b) == a.variant = b.variant /\ VecEq(a.args, b.args)

FunctionEq(a, b) ==
    /\ a.name = b.name
    /\ NodeEq(a.args, b.args)
    /\ OptionEq(a.filter, b.filter)
    /\ OptionEq(a.over, b.over)
    /\ a.distinct = b.distinct

\* An eq that takes ANY and SOME for the same expression.
ExprEqIgnoringSome(a, b) ==
    LET plain(e) == IF e.tag = "Any" THEN [e EXCEPT !.some = FALSE] ELSE e
    IN  plain(a) = plain(b)

ExprEq(a, b) ==
    /\ a.tag = b.tag
    /\ CASE a.tag \in {"Identifier", "QualifiedWildcard"} -> VecEq(a.parts, b.parts)
         [] a.tag = "Parameter" -> a.n = b.n
         [] a.tag \in {"IsNull", "IsNotNull", "Nested"} -> ExprEq(a.expr, b.expr)
         [] a.tag = "InList" ->
               ExprEq(a.expr, b.expr) /\ VecEq(a.list, b.list) /\ a.negated = b.negated
         [] a.tag = "InSubquery" ->
               ExprEq(a.expr, b.expr) /\ a.subquery = b.subquery
               /\ a.negated = b.negated
         [] a.tag = "Between" ->
               ExprEq(a.expr, b.expr) /\ a.negated = b.negated
               /\ ExprEq(a.low, b.low) /\ ExprEq(a.high, b.high)
         [] a.tag = "BinaryOp" ->
               ExprEq(a.left, b.left) /\ a.op = b.op /\ ExprEq(a.right, b.right)
         [] a.tag = "UnaryOp" -> a.op = b.op /\ ExprEq(a.expr, b.expr)
         [] a.tag = "Cast" -> ExprEq(a.expr, b.expr) /\ a.data_type = b.data_type
         [] a.tag = "Extract" -> a.field = b.field /\ ExprEq(a.expr, b.expr)
         [] a.tag = "Trim" -> a.side = b.side /\ VecEq(a.exprs, b.exprs)
         [] a.tag = "Collate" -> ExprEq(a.expr, b.expr) /\ a.collation = b.collation
         [] a.tag \in {"Coalesce", "Row", "List"} -> VecEq(a.exprs, b.exprs)
         [] a.tag = "Value" -> a.value = b.value
         [] a.tag = "Function" -> FunctionEq(a.fun, b.fun)
         [] a.tag = "Case" ->
               OptionEq(a.operand, b.operand)
               /\ VecEq(a.conditions, b.conditions)
               /\ VecEq(a.results, b.results)
               /\ OptionEq(a.else_result, b.else_result)
         [] a.tag \in {"Exists", "Subquery"} -> a.query = b.query
         [] a.tag = "Any" ->
               ExprEq(a.left, b.left) /\ a.op = b.op /\ a.right = b.right
               /\ a.some = b.some
         [] a.tag = "All" ->
               ExprEq(a.left, b.left) /\ a.op = b.op /\ a.right = b.right

NodeEq(a, b) ==
    CASE a.k = "Expr" -> ExprEq(a, b)
      [] a.k = "Function" -> FunctionEq(a, b)
      [] a.k = "FunctionArgs" -> FunctionArgsEq(a, b)
      [] a.k = "WindowSpec" -> WindowSpecEq(a, b)
      [] OTHER -> a = b

\* The index of a variant in the declaration of Expr.
Discriminant(tag) ==
    LET order == <<"Identifier", "QualifiedWildcard", "Parameter", "IsNull",
                   "IsNotNull", "InList", "InSubquery", "Between", "BinaryOp",
                   "UnaryOp", "Cast", "Extract", "Trim", "Collate", "Coalesce",
                   "Nested", "Row", "Value", "Function", "Case", "Exists",
                   "Subquery", "Any", "All", "List">>
    IN  (CHOOSE i \in 1..Len(order) : order[i] = tag) - 1

RECURSIVE ExprHash(_), NodeHash(_), VecHash(_, _)

\* What a hasher is fed, as words.
BoolHash(b) == <<IF b THEN "1" ELSE "0">>
LeafHash(n) == <<n.k, IF "variant" \in DOMAIN n THEN n.variant ELSE "", n.text>>
VecHash(v, i) ==
    IF i = 0 THEN <<ToString(Len(v))>> ELSE VecHash(v, i - 1) \o NodeHash(v[i])
OptionHash(o) == IF o.k = "Some" THEN <<"1">> \o NodeHash(o.v) ELSE <<"0">>
BoundHash(b) ==
    <<b.variant>> \o (IF b.n.k = "Some" THEN <<"1", ToString(b.n.v)>> ELSE <<"0">>)
WindowFrameHash(fr) ==
    <<fr.units.variant>> \o BoundHash(fr.start_bound)
    \o (IF fr.end_bound.k = "Some" THEN <<"1">> \o BoundHash(fr.end_bound.v) ELSE <<"0">>)
WindowSpecHash(w) ==
    VecHash(w.partition_by, Len(w.partition_by))
    \o VecHash(w.order_by, Len(w.order_by))
    \o (IF w.window_frame.k = "Some"
        THEN <<"1">> \o WindowFrameHash(w.window_frame.v) ELSE <<"0">>)
FunctionArgsHash(a) ==
    IF a.variant = "Star" THEN <<"0">> ELSE <<"1">> \o VecHash(a.args, Len(a.args))
FunctionHash(fun) ==
    LeafHash(fun.name) \o NodeHash(fun.args) \o OptionHash(fun.filter)
    \o OptionHash(fun.over) \o BoolHash(fun.distinct)

ExprHash(e) ==
    <<ToString(Discriminant(e.tag))>>
    \o CASE e.tag \in {"Identifier", "QualifiedWildcard"} ->
               VecHash(e.parts, Len(e.parts))
          [] e.tag = "Parameter" -> <<ToString(e.n)>>
          [] e.tag \in {"IsNull", "IsNotNull", "Nested"} -> ExprHash(e.expr)
          [] e.tag = "InList" ->
               ExprHash(e.expr) \o VecHash(e.list, Len(e.list)) \o BoolHash(e.negated)
          [] e.tag = "InSubquery" ->
               ExprHash(e.expr) \o LeafHash(e.subquery) \o BoolHash(e.negated)
          [] e.tag = "Between" ->
               ExprHash(e.expr) \o BoolHash(e.negated) \o ExprHash(e.low)
               \o ExprHash(e.high)
          [] e.tag = "BinaryOp" ->
               ExprHash(e.left) \o LeafHash(e.op) \o ExprHash(e.right)
          [] e.tag = "UnaryOp" -> LeafHash(e.op) \o ExprHash(e.expr)
          [] e.tag = "Cast" -> ExprHash(e.expr) \o LeafHash(e.data_type)
          [] e.tag = "Extract" -> <<ToString(Len(e.field))>> \o e.field \o ExprHash(e.expr)
          [] e.tag = "Trim" -> <<e.side.variant>> \o VecHash(e.exprs, Len(e.exprs))
          [] e.tag = "Collate" -> ExprHash(e.expr) \o LeafHash(e.collation)
          [] e.tag \in {"Coalesce", "Row", "List"} -> VecHash(e.exprs, Len(e.exprs))
          [] e.tag = "Value" -> LeafHash(e.value)
          [] e.tag = "Function" -> FunctionHash(e.fun)
          [] e.tag = "Case" ->
               OptionHash(e.operand)
               \o VecHash(e.conditions, Len(e.conditions))
               \o VecHash(e.results, Len(e.results))
               \o OptionHash(e.else_result)
          [] e.tag \in {"Exists", "Subquery"} -> LeafHash(e.query)
          [] e.tag = "Any" ->
               ExprHash(e.left) \o LeafHash(e.op) \o LeafHash(e.right)
               \o BoolHash(e.some)
          [] e.tag = "All" -> ExprHash(e.left) \o LeafHash(e.op) \o LeafHash(e.right)

NodeHash(n) ==
    CASE n.k = "Expr" -> ExprHash(n)
      [] n.k = "Function" -> FunctionHash(n)
      [] n.k = "FunctionArgs" -> FunctionArgsHash(n)
      [] n.k = "WindowSpec" -> WindowSpecHash(n)
      [] OTHER -> LeafHash(n)

(***************************************************************************)
(* Comparing and hashing: two values are built, then compared with == and  *)
(* each hashed into a hasher of its own, in either order.                  *)
(***************************************************************************)
EqExprs ==
    Children
    \cup {Identifier(<<Ident("a"), Ident("b")>>), Identifier(<<Ident("b"), Ident("a")>>),
          QualifiedWildcard(<<Ident("x")>>), Parameter(2),
          InList(X, <<Y>>, TRUE), InList(X, <<Y, Z>>, FALSE), InList(X, <<Z, Y>>, FALSE),
          InSubquery(X, Q, FALSE),
          Between(X, TRUE, Y, Z), Between(X, FALSE, Z, Y),
          BinaryOp(Y, Plus, X), BinaryOp(X, Times, Y),
          UnaryOp(UnaryOperator("NOT"), X),
          Cast(X, DataType("INT4")), Cast(Y, DataType("TEXT")),
          Extract(<<"d", "a", "y">>, Y), Extract(<<"d", "a">>, X),
          Trim(TrimSide("Both"), <<X>>), Trim(TrimSide("Leading"), <<X, Y>>),
          Collate(X, ObjectName("d")),
          Nested(X), Nested(Nested(X)),
          IsNull(InList(X, <<Y>>, TRUE)), IsNull(InList(X, <<Y>>, FALSE)),
          Case(None, <<Y>>, <<X>>, None), Case(Some(X), <<>>, <<Y>>, None),
          Case(None, <<X>>, <<Y>>, Some(Z)), Case(None, <<X>>, <<>>, Some(Y)),
          Exists(Query("SELECT 2")),
          AnyExpr(X, Plus, Q, FALSE), AnyExpr(X, Times, Q, TRUE),
          All(X, Times, Q)}
    \cup {Row(l) : l \in SeqsUpTo({X, Y}, MaxList)}
    \cup {Coalesce(l) : l \in SeqsUpTo({X, Y}, MaxList)}
    \cup {FunctionExpr(Function(ObjectName("fn"), a, fl, ov, d)) :
            a \in {Star, Args(<<>>), Args(<<X, Y>>), Args(<<Y, X>>)},
            fl \in {None, Some(X)},
            ov \in {None, Some(WindowSpec(<<>>, <<>>, None)),
                    Some(WindowSpec(<<X>>, <<OrderByExpr("o DESC")>>,
                         Some(WindowFrame(WindowFrameUnits("Rows"), Preceding(None),
                                          None)))),
                    Some(WindowSpec(<<X>>, <<OrderByExpr("o DESC")>>,
                         Some(WindowFrame(WindowFrameUnits("Rows"), Preceding(None),
                                          Some(CurrentRow)))))},
            d \in BOOLEAN}

InitEq ==
    /\ node \in EqExprs
    /\ rhs \in EqExprs
    /\ f = NewFormatter
    /\ pc = "built"
    /\ eq = None
    /\ hashers = <<>>

\* node == rhs
PartialEq ==
    /\ eq = None
    /\ eq' = Some(ExprEq(node, rhs))
    /\ UNCHANGED <<node, rhs, f, pc, hashers>>

\* node.hash(&mut h1); rhs.hash(&mut h2)
Hash ==
    /\ hashers = <<>>
    /\ hashers' = <<ExprHash(node), ExprHash(rhs)>>
    /\ UNCHANGED <<node, rhs, f, pc, eq>>

NextEq == PartialEq \/ Hash

SpecEq == InitEq /\ [][NextEq]_vars

(***************************************************************************)
(* Vocabulary of the properties.                                           *)
(***************************************************************************)
\* The text a value renders to on its own.
TextOf(n) == Text(to_ast_string(n).buf)

Rendered(tag) == pc = "rendered" /\ node.k = "Expr" /\ node.tag = tag

Min(a, b) == IF a <= b THEN a ELSE b

\* texts[from], texts[from + 1], ... with sep between consecutive ones
RECURSIVE JoinTexts(_, _, _)
JoinTexts(texts, sep, from) ==
    IF from > Len(texts) THEN ""
    ELSE IF from = Len(texts) THEN texts[from]
    ELSE texts[from] \o sep \o JoinTexts(texts, sep, from + 1)

TextsOf(nodes) == [i \in 1..Len(nodes) |-> TextOf(nodes[i])]

(***************************************************************************)
(* C1: a Cast renders its child, wrapped in "(" and ")" exactly when the   *)
(* child's variant is not one of Nested, Value, Cast, Function,            *)
(* Identifier, Extract, Trim, Collate, Coalesce, followed by "::" and the  *)
(* data type; Cast over x to TEXT is x::TEXT and Cast over a binary        *)
(* operation to INT4 is (a + b)::INT4.                                     *)
(***************************************************************************)
SafeBeforeCast ==
    {"Nested", "Value", "Cast", "Function", "Identifier", "Extract", "Trim",
     "Collate", "Coalesce"}

\* C1: the text of a rendered Cast is its child, in parentheses exactly when
\* the child is none of the nine safe variants, then "::" and the data type.
C1_CastWrapRule ==
    Rendered("Cast") =>
        /\ Text(f.buf) =
              (IF node.expr.tag \in SafeBeforeCast
               THEN TextOf(node.expr)
               ELSE "(" \o TextOf(node.expr) \o ")")
              \o "::" \o TextOf(node.data_type)
        /\ node = Cast(X, DataType("TEXT")) => Text(f.buf) = "x::TEXT"
        /\ node = Cast(BinaryOp(X, Plus, Y), DataType("INT4"))
              => Text(f.buf) = "(x + 'y')::INT4"

\* C1, reached: a Cast over a binary operation, rendered wrapped.
C1_Witness ==
    /\ Rendered("Cast")
    /\ node.expr.tag = "BinaryOp"
    /\ Text(f.buf) = "(x + 'y')::INT4"

(***************************************************************************)
(* C2: no two different Expr trees render to the same text (the rendered   *)
(* text determines the tree), BinaryOp, UnaryOp and Cast included.         *)
(***************************************************************************)
Operators == {e \in Exprs : e.tag \in {"BinaryOp", "UnaryOp", "Cast", "Nested"}}

\* C2: no other tree renders to the text of a rendered operator tree.
C2_RenderDeterminesTree ==
    (pc = "rendered" /\ node \in Operators) =>
        \A other \in Operators :
            other # node => TextOf(other) # Text(f.buf)

(***************************************************************************)
(* C3: a WindowSpec whose frame has no end bound renders the same text as  *)
(* the same WindowSpec with the end bound CURRENT ROW (as claimed), and    *)
(* what holds instead: the shorthand renders <units> <start> where the     *)
(* explicit form renders <units> BETWEEN <start> AND CURRENT ROW, after    *)
(* the same PARTITION BY and ORDER BY text.                                *)
(***************************************************************************)
Shorthand ==
    /\ pc = "rendered"
    /\ node.k = "WindowSpec"
    /\ node.window_frame.k = "Some"
    /\ node.window_frame.v.end_bound.k = "None"

Explicit(w) ==
    [w EXCEPT !.window_frame =
        Some(WindowFrame(w.window_frame.v.units, w.window_frame.v.start_bound,
                         Some(CurrentRow)))]

\* C3 as claimed: the shorthand frame and the frame ending at CURRENT ROW
\* render to the same text.
C3_ShorthandRendersAsCurrentRow ==
    Shorthand => Text(f.buf) = TextOf(Explicit(node))

\* C3 as amended: the shorthand renders <units> <start>, the explicit frame
\* <units> BETWEEN <start> AND CURRENT ROW, after the same leading clauses.
C3_ShorthandAndExplicitTexts ==
    Shorthand =>
        LET head == TextOf([node EXCEPT !.window_frame = None])
            lead == IF head = "" THEN "" ELSE head \o " "
            units == TextOf(node.window_frame.v.units)
            start == TextOf(node.window_frame.v.start_bound)
        IN  /\ Text(f.buf) = lead \o units \o " " \o start
            /\ TextOf(Explicit(node))
                  = lead \o units \o " BETWEEN " \o start \o " AND CURRENT ROW"

\* C3, reached: a shorthand frame after a PARTITION BY clause.
C3_Witness ==
    /\ Shorthand
    /\ Len(node.partition_by) > 0
    /\ Text(f.buf) = "PARTITION BY x ROWS 1 PRECEDING"
    /\ TextOf(Explicit(node)) = "PARTITION BY x ROWS BETWEEN 1 PRECEDING AND CURRENT ROW"

(***************************************************************************)
(* C4: a Case renders CASE, the operand if any, then exactly               *)
(* min(len(conditions), len(results)) groups " WHEN c THEN r" pairing      *)
(* conditions[i] with results[i] in index order, the ELSE if any, and      *)
(* " END"; the excess elements of the longer list are never rendered and   *)
(* do not make rendering fail.                                             *)
(***************************************************************************)
RECURSIVE WhenThenText(_, _, _, _)
WhenThenText(conditions, results, i, n) ==
    IF i > n THEN ""
    ELSE " WHEN " \o TextOf(conditions[i]) \o " THEN " \o TextOf(results[i])
         \o WhenThenText(conditions, results, i + 1, n)

CasePaired(e) ==
    LET n == Min(Len(e.conditions), Len(e.results))
    IN  (IF e.operand.k = "Some" THEN {e.operand.v} ELSE {})
        \cup {e.conditions[i] : i \in 1..n}
        \cup {e.results[i] : i \in 1..n}
        \cup (IF e.else_result.k = "Some" THEN {e.else_result.v} ELSE {})

\* C4: a rendered Case is CASE, the operand, min(len, len) WHEN/THEN groups
\* in index order, the ELSE, END; only a visited child can make it panic.
C4_CasePairing ==
    (pc # "built" /\ node.k = "Expr" /\ node.tag = "Case") =>
        /\ pc = "rendered" =>
              Text(f.buf) =
                "CASE"
                \o (IF node.operand.k = "Some"
                    THEN " " \o TextOf(node.operand.v) ELSE "")
                \o WhenThenText(node.conditions, node.results, 1,
                                Min(Len(node.conditions), Len(node.results)))
                \o (IF node.else_result.k = "Some"
                    THEN " ELSE " \o TextOf(node.else_result.v) ELSE "")
                \o " END"
        /\ pc = "panicked" => \E c \in CasePaired(node) : to_ast_string(c).panicked
        /\ node = Case(None, <<X, Y>>, <<X, X>>, Some(Y))
              => Text(f.buf) = "CASE WHEN x THEN x WHEN 'y' THEN x ELSE 'y' END"

\* C4, reached: three conditions, one result, the unpaired ones not rendered
\* (an empty Trim among them does not panic).
C4_Witness ==
    /\ Rendered("Case")
    /\ node.conditions = <<X, EmptyTrim, Y>>
    /\ node.results = <<X>>
    /\ Text(f.buf) = "CASE WHEN x THEN x END"

(***************************************************************************)
(* C5: a Trim with at least one element renders the side's function name,  *)
(* "(", exprs[0], then ", " and exprs[1] whenever exprs[1] is present (as  *)
(* claimed), and what holds instead: ", " and exprs[1] are rendered        *)
(* exactly when exprs has exactly two elements.                            *)
(***************************************************************************)
SideName(side) ==
    CASE side.variant = "Both" -> "btrim"
      [] side.variant = "Leading" -> "ltrim"
      [] side.variant = "Trailing" -> "rtrim"

\* C5 as claimed: ", " and exprs[1] are rendered whenever exprs[1] is present.
C5_TrimSecondArgWhenPresent ==
    (Rendered("Trim") /\ Len(node.exprs) >= 1) =>
        Text(f.buf) =
            SideName(node.side) \o "(" \o TextOf(node.exprs[1])
            \o (IF Len(node.exprs) >= 2 THEN ", " \o TextOf(node.exprs[2]) ELSE "")
            \o ")"

\* C5 as amended: ", " and exprs[1] are rendered exactly when len(exprs) = 2.
C5_TrimSecondArgWhenExactlyTwo ==
    (Rendered("Trim") /\ Len(node.exprs) >= 1) =>
        Text(f.buf) =
            SideName(node.side) \o "(" \o TextOf(node.exprs[1])
            \o (IF Len(node.exprs) = 2 THEN ", " \o TextOf(node.exprs[2]) ELSE "")
            \o ")"

\* C5, reached: a Trim of three elements rendered with its first alone.
C5_Witness ==
    /\ Rendered("Trim")
    /\ node.exprs = <<X, Y, X>>
    /\ Text(f.buf) = "ltrim(x)"

(***************************************************************************)
(* C6: rendering ends either normally or in a panic, never in an error     *)
(* value; it panics exactly when the traversal reaches a Trim whose exprs  *)
(* is empty, so a tree in which every Trim has an element always renders,  *)
(* whatever the lengths of its other lists and the contents of its window  *)
(* frames.                                                                 *)
(***************************************************************************)
Elems(s) == {s[i] : i \in 1..Len(s)}
Opt(o) == IF o.k = "Some" THEN {o.v} ELSE {}

\* Every node a node owns.
Owned(n) ==
    CASE n.k = "Expr" /\ n.tag \in {"IsNull", "IsNotNull", "InSubquery", "UnaryOp", "Cast",
                                    "Extract", "Collate", "Nested"} -> {n.expr}
      [] n.k = "Expr" /\ n.tag = "InList" -> {n.expr} \cup Elems(n.list)
      [] n.k = "Expr" /\ n.tag = "Between" -> {n.expr, n.low, n.high}
      [] n.k = "Expr" /\ n.tag = "BinaryOp" -> {n.left, n.right}
      [] n.k = "Expr" /\ n.tag \in {"Trim", "Coalesce", "Row", "List"} -> Elems(n.exprs)
      [] n.k = "Expr" /\ n.tag = "Function" -> {n.fun}
      [] n.k = "Expr" /\ n.tag = "Case" ->
            Opt(n.operand) \cup Elems(n.conditions) \cup Elems(n.results)
            \cup Opt(n.else_result)
      [] n.k = "Expr" /\ n.tag \in {"Any", "All"} -> {n.left}
      [] n.k = "Function" -> {n.args} \cup Opt(n.filter) \cup Opt(n.over)
      [] n.k = "FunctionArgs" -> Elems(n.args)
      [] n.k = "WindowSpec" -> Elems(n.partition_by)
      [] OTHER -> {}

\* The nodes it owns that its rendering visits: all of them, except the
\* unpaired conditions and results of a Case and, in a Trim that does not
\* hold exactly two elements, all but the first.
Visited(n) ==
    CASE n.k = "Expr" /\ n.tag = "Case" -> CasePaired(n)
      [] n.k = "Expr" /\ n.tag = "Trim" ->
            IF Len(n.exprs) = 2 THEN Elems(n.exprs)
            ELSE {n.exprs[i] : i \in 1..Min(1, Len(n.exprs))}
      [] OTHER -> Owned(n)

IsEmptyTrim(n) == n.k = "Expr" /\ n.tag = "Trim" /\ Len(n.exprs) = 0

RECURSIVE HasEmptyTrim(_)
HasEmptyTrim(n) == IsEmptyTrim(n) \/ \E c \in Owned(n) : HasEmptyTrim(c)

RECURSIVE ReachesEmptyTrim(_)
ReachesEmptyTrim(n) == IsEmptyTrim(n) \/ \E c \in Visited(n) : ReachesEmptyTrim(c)

\* C6: a rendering ends rendered or panicked; it panics exactly when it
\* reaches an empty Trim; a tree without an empty Trim renders.
C6_PanicsExactlyOnEmptyTrim ==
    /\ pc \in {"built", "rendered", "panicked"}
    /\ pc = "built" => ~f.panicked
    /\ pc # "built" =>
          /\ f.panicked = (pc = "panicked")
          /\ pc = "panicked" <=> ReachesEmptyTrim(node)
          /\ ~HasEmptyTrim(node) => pc = "rendered"

\* C6, reached: a panic at an empty Trim in the middle of a COALESCE.
C6_Witness ==
    /\ pc = "panicked"
    /\ node.k = "Expr"
    /\ node.tag = "Coalesce"
    /\ node.exprs = <<X, EmptyTrim, Y>>
    /\ f.buf = <<"COALESCE(", "x", ", ", "btrim", "(">>

(***************************************************************************)
(* C7: a WindowSpec renders its non-empty PARTITION BY list, its non-empty *)
(* ORDER BY list and its frame, those that are present, in this order,     *)
(* with one space between consecutive clauses and none before the first or *)
(* after the last; with none present it renders the empty string.          *)
(***************************************************************************)
FrameText(fr) ==
    IF fr.end_bound.k = "Some"
    THEN TextOf(fr.units) \o " BETWEEN " \o TextOf(fr.start_bound) \o " AND "
         \o TextOf(fr.end_bound.v)
    ELSE TextOf(fr.units) \o " " \o TextOf(fr.start_bound)

Clauses(w) ==
    (IF Len(w.partition_by) > 0
     THEN <<"PARTITION BY " \o JoinTexts(TextsOf(w.partition_by), ", ", 1)>> ELSE <<>>)
    \o (IF Len(w.order_by) > 0
        THEN <<"ORDER BY " \o JoinTexts(TextsOf(w.order_by), ", ", 1)>> ELSE <<>>)
    \o (IF w.window_frame.k = "Some" THEN <<FrameText(w.window_frame.v)>> ELSE <<>>)

\* C7: a rendered WindowSpec is its present clauses joined by single spaces.
C7_WindowSpecClauses ==
    (pc = "rendered" /\ node.k = "WindowSpec") =>
        /\ Text(f.buf) = JoinTexts(Clauses(node), " ", 1)
        /\ Clauses(node) = <<>> => Text(f.buf) = ""

\* C7, reached: no PARTITION BY, an ORDER BY and a frame.
C7_Witness ==
    /\ pc = "rendered"
    /\ node.k = "WindowSpec"
    /\ Len(node.partition_by) = 0
    /\ Text(f.buf) = "ORDER BY o DESC, o DESC RANGE BETWEEN UNBOUNDED PRECEDING AND 1 FOLLOWING"

(***************************************************************************)
(* C9: a List of any length renders LIST[, its elements in order with      *)
(* ", " after an element exactly when another follows, and ], which is     *)
(* the text the comma-joining helper gives (as in COALESCE(...)); the      *)
(* empty list renders LIST[].                                              *)
(***************************************************************************)
\* C9: a rendered List is LIST[, the elements joined by ", ", and ]: the
\* text of the comma-joining helper.
C9_ListJoinsWithCommas ==
    Rendered("List") =>
        /\ Text(f.buf) = "LIST[" \o JoinTexts(TextsOf(node.exprs), ", ", 1) \o "]"
        /\ Text(f.buf) = "LIST[" \o TextOf(comma_separated(node.exprs)) \o "]"
        /\ "COALESCE(" \o TextOf(comma_separated(node.exprs)) \o ")"
              = TextOf(Coalesce(node.exprs))
        /\ Len(node.exprs) = 0 => Text(f.buf) = "LIST[]"

\* C9, reached: a List of three elements.
C9_Witness ==
    /\ Rendered("List")
    /\ Len(node.exprs) = 3
    /\ Text(f.buf) = "LIST[x, 'y', x]"

(***************************************************************************)
(* C10: with every leaf an atomic token, at every point of a rendering the *)
(* closing delimiters written so far never outnumber the opening ones, and *)
(* a rendering that completes has written as many of each.                 *)
(***************************************************************************)
Opening ==
    {"(", "IN (", "EXTRACT(", "COALESCE(", "ROW(", "EXISTS (", " ALL (", "LIST[",
     " FILTER (WHERE ", " OVER ("}
Closing == {")", "]"}

\* The number of unclosed delimiters after the first i writes.
RECURSIVE Depth(_, _)
Depth(buf, i) ==
    IF i = 0 THEN 0
    ELSE Depth(buf, i - 1)
         + (IF buf[i] \in Opening THEN 1 ELSE 0)
         - (IF buf[i] \in Closing THEN 1 ELSE 0)

\* C10: no prefix of the writes closes more delimiters than it opens; a
\* completed rendering closes all of them.
C10_DelimitersBalanced ==
    /\ \A i \in 0..Len(f.buf) : Depth(f.buf, i) >= 0
    /\ pc = "rendered" => Depth(f.buf, Len(f.buf)) = 0

\* C10, reached: a function call with FILTER and OVER, one delimiter open
\* after the second write and before the last.
C10_Witness ==
    /\ pc = "rendered"
    /\ node.k = "Function"
    /\ Text(f.buf) = "fn(DISTINCT x, 'y') FILTER (WHERE x) OVER (PARTITION BY x ORDER BY o DESC)"
    /\ Depth(f.buf, 2) = 1
    /\ Depth(f.buf, Len(f.buf) - 1) = 1

(***************************************************************************)
(* C8: == on Expr holds exactly when the two values have the same variant  *)
(* and equal fields, recursively (negated, some and the order of list      *)
(* elements included); it is reflexive, symmetric and transitive; and      *)
(* equal values feed their hashers the same words, so they hash equal.     *)
(***************************************************************************)
\* C8: == is value equality of the two trees, reflexive, symmetric and
\* transitive, and equal trees feed their hashers the same words.
C8_EqStructuralAndHashConsistent ==
    /\ eq # None =>
          /\ eq.v = (node = rhs)
          /\ eq.v = ExprEq(rhs, node)
          /\ ExprEq(node, node)
          /\ \A c \in EqExprs : (eq.v /\ ExprEq(rhs, c)) => ExprEq(node, c)
    /\ (eq # None /\ hashers # <<>> /\ eq.v) => hashers[1] = hashers[2]

\* C8, reached: two equal ANY/SOME expressions, compared and hashed.
C8_Witness ==
    /\ eq = Some(TRUE)
    /\ hashers # <<>>
    /\ hashers[1] = hashers[2]
    /\ node.tag = "Any"
    /\ node.some
    /\ rhs.tag = "Any"

=============================================================================
